---- MODULE Spec2Model ----
\* A model of drf-pydantic: the conversion of pydantic models into DRF
\* serializer classes (src/src/drf_pydantic/parse.py), the registry that caches
\* them, and the validation protocol of the generated serializer
\* (src/src/drf_pydantic/base_serializer.py).
EXTENDS Integers, Sequences, FiniteSets, TLC

\* ------------------------------------------------------------------ bounds

\* Number of serializer classes (object identities) the process may create.
MaxClasses == 6
\* Depth at which the interpreter gives up a recursion (RecursionError).
MaxDepth == 4

\* ------------------------------------------------------------ annotations
\* A type annotation is a record [k, t, args]:
\*   k = "class"    a plain class named t (int, str, a model, NoneType ...)
\*   k = "union"    typing.Union / Optional, members in args
\*   k = "uniontype" a union written with the pipe (X | Y), members in args
\*   k = "generic"  a subscripted generic alias with origin t (list, tuple,
\*                  dict, Literal) and parameters args
\*   k = "ellipsis" the Ellipsis object found in tuple[X, ...]
\*   k = "alias"    a TypeAliasType named t

Class(t) == [k |-> "class", t |-> t, args |-> <<>>]
Union(a, b) == [k |-> "union", t |-> "Union", args |-> <<a, b>>]
Union3(a, b, c) == [k |-> "union", t |-> "Union", args |-> <<a, b, c>>]
PipeUnion(a, b) == [k |-> "uniontype", t |-> "UnionType", args |-> <<a, b>>]
Generic(o, args) == [k |-> "generic", t |-> o, args |-> args]
Ellipsis == [k |-> "ellipsis", t |-> "Ellipsis", args |-> <<>>]
NoneType == Class("NoneType")
Optional(a) == Union(a, NoneType)

Range(s) == {s[i] : i \in DOMAIN s}

\* An optional value: None, or Some(v).
None == <<>>
Some(v) == <<v>>

\* The value of a numeric bound: a number v, or a value decimal.Decimal()
\* does not take (a date).
Num(v) == [numeric |-> TRUE, v |-> v]
ADate == [numeric |-> FALSE, v |-> 0]

\* An item of FieldInfo.metadata, by the class the conversion tests it for.
Item(kind) == [kind |-> kind, min_length |-> None, max_length |-> None,
               pattern |-> None, max_digits |-> None, decimal_places |-> None,
               bound |-> Num(0), field |-> <<>>]
StringConstraints(min_length, max_length) ==
    [Item("StringConstraints") EXCEPT !.min_length = min_length,
                                      !.max_length = max_length]
\* pydantic.StringConstraints(pattern=pattern) and the PydanticMetadata of
\* pydantic.Field(pattern=pattern)
StringPattern(pattern) ==
    [Item("StringConstraints") EXCEPT !.pattern = Some(pattern)]
FieldPattern(pattern) ==
    [Item("PydanticMetadata") EXCEPT !.pattern = Some(pattern)]
MinLen(n) == [Item("MinLen") EXCEPT !.min_length = Some(n)]
MaxLen(n) == [Item("MaxLen") EXCEPT !.max_length = Some(n)]
PydanticMetadata(max_digits, decimal_places) ==
    [Item("PydanticMetadata") EXCEPT !.max_digits = max_digits,
                                     !.decimal_places = decimal_places]
Ge(v) == [Item("Ge") EXCEPT !.bound = v]
Gt(v) == [Item("Gt") EXCEPT !.bound = v]
Le(v) == [Item("Le") EXCEPT !.bound = v]
Lt(v) == [Item("Lt") EXCEPT !.bound = v]
\* A serializers.Field instance put in the metadata by hand.
DrfField(f) == [Item("DrfField") EXCEPT !.field = <<f>>]

\* A pydantic FieldInfo: name, annotation, is_required(), metadata items
\* and the validation alias ("": none declared).
AnnotatedField(n, a, metadata) ==
    [name |-> n, annotation |-> a, required |-> TRUE, metadata |-> metadata,
     validation_alias |-> ""]
FieldInfo(n, a) == AnnotatedField(n, a, <<>>)
AliasedField(n, a, alias) ==
    [AnnotatedField(n, a, <<>>) EXCEPT !.validation_alias = alias]
\* field=None
NoField == AnnotatedField("", [k |-> "class", t |-> "", args |-> <<>>], <<>>)

\* ------------------------------------------------------ the source models
\* The source models of the process.  DrfModels derive from
\* drf_pydantic.BaseModel, PlainModels from pydantic.BaseModel only.

DrfModels == {"Person", "Employee", "Broken"}
PlainModels == {"Job", "Faulty", "Holder", "Node"}
Models == DrfModels \cup PlainModels

model_fields(m) ==
    CASE m = "Person" -> << FieldInfo("name", Class("str")),
                            FieldInfo("age", Class("int")) >>
      [] m = "Job" -> << FieldInfo("title", Class("str")),
                         FieldInfo("salary", Class("float")),
                         AliasedField("employer_name", Class("str"), "employer") >>
      [] m = "Employee" -> << FieldInfo("name", Class("str")),
                              FieldInfo("job", Class("Job")),
                              FieldInfo("boss", Optional(Class("Person"))),
                              FieldInfo("jobs", Generic("list", <<Class("Job")>>)) >>
      [] m = "Broken" -> << FieldInfo("a", Union(Class("int"), Class("str"))),
                            FieldInfo("b", Class("int")),
                            FieldInfo("job", Class("Job")),
                            FieldInfo("c", Generic("tuple", <<Class("int"), Class("str")>>)) >>
      [] m = "Faulty" -> << FieldInfo("u", Class("bytes")),
                            FieldInfo("v", Class("bool")) >>
      [] m = "Holder" -> << FieldInfo("x", Union3(Class("int"), Class("str"), NoneType)),
                            FieldInfo("inner", Class("Faulty")),
                            FieldInfo("z", Generic("dict", <<Class("int"), Class("int")>>)) >>
      [] m = "Node" -> << FieldInfo("value", Class("int")),
                          FieldInfo("next", Optional(Class("Node"))) >>

\* The method resolution order of the scalar classes the models use.
mro(t) ==
    CASE t = "bool" -> <<"bool", "int", "object">>
      [] t \in Models -> <<t, "BaseModel", "object">>
      [] OTHER -> <<t, "object">>

\* ----------------------------------------------------------------- config
\* A DrfConfigDict is a partial function from ConfigKeys (total=False).

ConfigKeys == {"validate_pydantic", "validation_error",
               "backpopulate_after_validation"}
EmptyConfig == [key \in {} |-> TRUE]

\* dict.update: the entries of b override those of a.
Update(a, b) == [key \in DOMAIN a \cup DOMAIN b |->
                    IF key \in DOMAIN b THEN b[key] ELSE a[key]]

\* The documented defaults of the three keys.
DefaultConfig == [validate_pydantic |-> FALSE, validation_error |-> "drf",
                  backpopulate_after_validation |-> TRUE]

\* ------------------------------------------------------------------ utils

NoMembers == <<>>

\* get_union_members with a slip: X | Y is not seen as a union.
get_union_members_typing_only(type_) ==
    IF type_.k = "union" THEN type_.args ELSE NoMembers

\* None (here NoMembers) unless type_ is a union of either spelling.
get_union_members(type_) ==
    IF type_.k \in {"union", "uniontype"} THEN type_.args ELSE NoMembers

\* Neither a types.GenericAlias nor a typing._GenericAlias; typing.Union and
\* typing.Optional are _GenericAlias instances, X | Y is not.
is_scalar(type_) == type_.k \notin {"generic", "union"}

\* ------------------------------------------------- results of a conversion
\* The store st = [registry, count, tried, drf_serializer, warnings] threaded
\* through one call: SERIALIZER_REGISTRY, the number of serializer classes
\* created so far, the models whose field loop the call has entered, the
\* drf_serializer attributes of the drf models and the warnings issued.
\* A result carries the exception raised ("none": returned normally), the
\* store as the call left it, and the value returned.

NoType == [k |-> "class", t |-> "", args |-> <<>>]
NoInfo == [model |-> "", errors |-> <<>>, msg |-> "", type_ |-> NoType]
NoValue == [field |-> "", cls |-> 0, allow_null |-> FALSE, child |-> <<>>,
            kwargs |-> EmptyConfig]

\* kwargs.get(key, None) and kwargs[key] = v
Get(kwargs, key) == IF key \in DOMAIN kwargs THEN kwargs[key] ELSE None
Set(kwargs, key, v) == (key :> v) @@ kwargs

Return(st, val) == [exc |-> "none", info |-> NoInfo, st |-> st, val |-> val]
Raise(st, exc, info) == [exc |-> exc, info |-> info, st |-> st, val |-> NoValue]
FieldError(st, msg) ==
    Raise(st, "FieldConversionError", [NoInfo EXCEPT !.msg = msg])

\* A DRF field instance: its class, allow_null, the serializer class it
\* instantiates (0: not a nested serializer) and its child field, if any.
Field(cls, kwargs) == [field |-> cls, cls |-> 0,
                       allow_null |-> kwargs["allow_null"], child |-> <<>>,
                       kwargs |-> kwargs]
ListField(cls, child, kwargs) == [field |-> cls, cls |-> 0,
                                  allow_null |-> kwargs["allow_null"],
                                  kwargs |-> kwargs,
                                  child |-> <<child>>]
\* serializer_class(**kwargs)
Instantiate(class, kwargs) == [field |-> "Serializer", cls |-> class.id,
                               allow_null |-> kwargs["allow_null"],
                               child |-> <<>>, kwargs |-> kwargs]

FIELD_MAP ==
    [bool |-> "BooleanField", str |-> "CharField", EmailStr |-> "EmailField",
     Url |-> "URLField", HttpUrl |-> "URLField", UUID |-> "UUIDField",
     int |-> "IntegerField", float |-> "FloatField",
     datetime |-> "DateTimeField", date |-> "DateField", time |-> "TimeField",
     timedelta |-> "DurationField", list |-> "ListField",
     tuple |-> "ListField", dict |-> "DictField"]

\* for key in type_.__mro__: try FIELD_MAP[key]; "" when no key is mapped.
RECURSIVE MappedField(_, _)
MappedField(keys, i) ==
    IF i > Len(keys) THEN ""
    ELSE IF keys[i] \in DOMAIN FIELD_MAP THEN FIELD_MAP[keys[i]]
    ELSE MappedField(keys, i + 1)

\* ------------------------------------------------- class-level attributes

\* The drf_config a drf_pydantic.BaseModel subclass declares in its body.
declared_config(m) ==
    CASE m = "Person" -> [validate_pydantic |-> TRUE]
      [] m = "Employee" -> [validate_pydantic |-> TRUE,
                            validation_error |-> "pydantic"]
      [] OTHER -> EmptyConfig

\* getattr(pydantic_model, "drf_config") of a drf_pydantic.BaseModel
\* subclass deriving directly from BaseModel: the declared keys over the
\* defaults.
class_drf_config(m) == Update(DefaultConfig, declared_config(m))

\* The drf models a model's annotations name (they must exist before the
\* class statement of the model can run).
RECURSIVE NamedClasses(_)
NamedClasses(type_) ==
    (IF type_.k = "class" THEN {type_.t} ELSE {})
    \cup UNION {NamedClasses(type_.args[i]) : i \in DOMAIN type_.args}
Referenced(m) ==
    UNION {NamedClasses(model_fields(m)[i].annotation) :
           i \in DOMAIN model_fields(m)}

\* ------------------------------------------------------------- conversion

RECURSIVE create_serializer_from_model(_, _, _, _)
RECURSIVE convert_model_fields(_, _, _, _, _, _, _)
RECURSIVE _convert_type(_, _, _, _, _, _)
RECURSIVE _convert_field(_, _, _, _)

\* decimal.getcontext().prec of a process that left the context alone.
_context_prec == 28

\* The enum classes of the process and their members, in definition order.
Enums == {"SexEnum"}
EnumMembers(e) ==
    <<[name |-> "MALE", value |-> "male"],
      [name |-> "FEMALE", value |-> "female"],
      [name |-> "OTHER", value |-> "other"]>>

\* x or y, for an optional number x: None and 0 are falsy.
Or(x, y) == IF x = None \/ x = Some(0) THEN y ELSE x

\* create_serializer_from_model(type_, drf_config=drf_config)(**kwargs), r
\* being what the call of create_serializer_from_model ended in.
instantiate_built(r, kwargs) ==
    IF r.exc # "none" THEN r ELSE Return(r.st, Instantiate(r.val, kwargs))

\* The regular expressions of the fields converted, and for each
\* re.search(pattern, "") is not None.
Patterns == {"123", "^[0-9]*$"}
search_empty(pattern) ==
    CASE pattern = "123" -> FALSE
      [] pattern = "^[0-9]*$" -> TRUE

\* regex_patterns: the patterns of the StringConstraints and
\* PydanticMetadata items of the metadata, in its order.
regex_patterns(metadata) ==
    LET carriers == SelectSeq(metadata, LAMBDA item :
                        item.kind \in {"StringConstraints", "PydanticMetadata"}
                        /\ item.pattern # None)
    IN [i \in DOMAIN carriers |-> carriers[i].pattern[1]]

\* The branch of _convert_type for a scalar type_ (the union, if any, has
\* been stripped and kwargs["allow_null"] set).
convert_scalar(type_, field, kwargs, drf_config, st, depth) ==
    IF type_.k # "class"
    THEN \* building the message reads type_.__name__, which the Ellipsis and
         \* an X | Y union do not have
         Raise(st, "AttributeError", NoInfo)
    ELSE IF type_.t \in DrfModels
    THEN IF type_.t \in DOMAIN st.drf_serializer
         THEN Return(st, Instantiate(st.drf_serializer[type_.t], kwargs))
         ELSE Raise(st, "AttributeError", NoInfo)
    ELSE IF type_.t \in PlainModels
    THEN instantiate_built(
             create_serializer_from_model(type_.t, drf_config, st, depth + 1),
             kwargs)
    ELSE IF type_.t = "Decimal"
    THEN Return(st, Field("DecimalField",
            Set(Set(kwargs, "max_digits",
                    Or(Get(kwargs, "max_digits"), Some(_context_prec))),
                "decimal_places",
                Or(Get(kwargs, "decimal_places"), Some(_context_prec)))))
    ELSE IF Len(regex_patterns(field.metadata)) > 1
    THEN FieldError(st, "Field has multiple regex patterns")
    ELSE IF Len(regex_patterns(field.metadata)) = 1
    THEN Return(st, Field("RegexField",
            Set(Set(kwargs, "allow_blank",
                    search_empty(regex_patterns(field.metadata)[1])),
                "regex", regex_patterns(field.metadata)[1])))
    ELSE IF type_.t \in Enums
    THEN Return(st, Field("ChoiceField",
            Set(kwargs, "choices",
                [i \in DOMAIN EnumMembers(type_.t) |->
                    <<EnumMembers(type_.t)[i].value,
                      EnumMembers(type_.t)[i].value>>])))
    ELSE LET blank ==
                 IF type_.t \in {"EmailStr", "Url", "HttpUrl"}
                 THEN Set(kwargs, "allow_blank", FALSE)
                 ELSE IF "str" \in Range(mro(type_.t))
                 THEN Set(kwargs, "allow_blank",
                          IF "min_length" \in DOMAIN kwargs
                          THEN kwargs["min_length"] = Some(0) ELSE TRUE)
                 ELSE kwargs
             mapped == MappedField(mro(type_.t), 1)
         IN IF mapped # "" THEN Return(st, Field(mapped, blank))
            ELSE FieldError(st, "is not a supported scalar type")

\* serializers.ListField / DictField(child=..., allow_empty=True, **kwargs),
\* r being what converting the child ended in.
wrap_child(cls, r, kwargs) ==
    IF r.exc # "none" THEN r ELSE Return(r.st, ListField(cls, r.val, kwargs))

\* The branch of _convert_type for a composite type_: which field class
\* wraps the conversion of which argument, or which exception is raised.
composite_plan(type_) ==
    LET type_origin == type_.t
        type_args == type_.args
        wraps(cls, i) == [exc |-> "none", msg |-> "", cls |-> cls, arg |-> i]
        raises(exc, msg) == [exc |-> exc, msg |-> msg, cls |-> "", arg |-> 0]
    IN CASE type_origin = "list" -> wraps("ListField", 1)
         [] type_origin = "tuple" ->
              IF Len(type_args) = 2 /\ is_scalar(type_args[1])
                    /\ type_args[2] = Ellipsis
              THEN wraps("ListField", 1)
              ELSE IF Len(type_args) = 0
                        \/ (Len(type_args) = 1 /\ type_args[1] = Ellipsis)
              THEN \* type_args[0], resp. type_args[1], does not exist
                   raises("IndexError", "")
              ELSE IF type_args[1] = Ellipsis /\ is_scalar(type_args[2])
              THEN wraps("ListField", 1)
              ELSE IF (\A i \in DOMAIN type_args : is_scalar(type_args[i]))
                        /\ Cardinality(Range(type_args)) = 1
              THEN wraps("ListField", 1)
              ELSE raises("FieldConversionError", "is not a supported tuple type")
         [] type_origin = "dict" ->
              IF type_args[1] # Class("str")
              THEN raises("FieldConversionError", "is not a supported dict type")
              ELSE wraps("DictField", 2)
         [] type_origin = "Literal" -> wraps("ChoiceField", 0)
         [] OTHER -> raises("FieldConversionError",
                            "is not a supported composite type")

convert_composite(type_, kwargs, drf_config, st, depth) ==
    LET plan == composite_plan(type_)
    IN IF plan.exc = "FieldConversionError" THEN FieldError(st, plan.msg)
       ELSE IF plan.exc # "none" THEN Raise(st, plan.exc, NoInfo)
       ELSE IF plan.arg = 0 THEN Return(st, Field(plan.cls, kwargs))
       ELSE wrap_child(plan.cls,
                       _convert_type(type_.args[plan.arg], drf_config,
                                     NoField, EmptyConfig, st, depth),
                       kwargs)

\* _convert_type(type_, drf_config, field, **kwargs); field=None is NoField,
\* whose metadata is empty.
_convert_type(type_, drf_config, field, kwargs_, st, depth) ==
    LET field_union_members == get_union_members(type_)
        is_union == field_union_members # NoMembers
    IN IF is_union /\ (Len(field_union_members) > 2
                          \/ NoneType \notin Range(field_union_members))
       THEN \* the message names the union: f"... to DRF Serializer: {type_}. ..."
            Raise(st, "FieldConversionError",
                  [NoInfo EXCEPT
                      !.msg = "Field has Union type which cannot be converted",
                      !.type_ = type_])
       ELSE LET kwargs == Set(kwargs_, "allow_null", is_union)
                stripped ==
                    IF is_union
                    THEN SelectSeq(field_union_members,
                                   LAMBDA member : member # NoneType)[1]
                    ELSE type_
            IN IF stripped.k = "alias"
               THEN IF stripped.t = "JsonValue"
                    THEN Return(st, Field("JSONField", kwargs))
                    ELSE FieldError(st, "is not a supported TypeAliasType")
               ELSE IF is_scalar(stripped)
               THEN convert_scalar(stripped, field, kwargs, drf_config, st, depth)
               ELSE convert_composite(stripped, kwargs, drf_config, st, depth)

\* What the loop over the constraints ended in.
Constrained(exc, msg, kwargs, warnings) ==
    [exc |-> exc, msg |-> msg, kwargs |-> kwargs, warnings |-> warnings]

\* max(kwargs.get(key, -inf), n) for pick = "max", min(kwargs.get(key, inf), n)
\* for pick = "min"; <<>> stands for the TypeError of comparing None with n.
Narrowed(kwargs, key, n, pick) ==
    IF key \notin DOMAIN kwargs THEN <<Some(n)>>
    ELSE IF kwargs[key] = None THEN <<>>
    ELSE IF (pick = "max") = (kwargs[key][1] > n) THEN <<kwargs[key]>>
    ELSE <<Some(n)>>

\* already_set with a slip: a bound set before is never seen.
already_set_never(kwargs, key) == FALSE

\* drf_field_kwargs.get(key, None) is not None
already_set(kwargs, key) == Get(kwargs, key) # None

\* precision_conflict with a slip: `and` for the `or` between the two tests.
precision_conflict_both(kwargs, item) ==
    /\ (already_set(kwargs, "max_digits") /\ item.max_digits # None)
    /\ (already_set(kwargs, "decimal_places") /\ item.decimal_places # None)

\* The test that guards the decimal constraints of a PydanticMetadata item.
precision_conflict(kwargs, item) ==
    \/ (already_set(kwargs, "max_digits") /\ item.max_digits # None)
    \/ (already_set(kwargs, "decimal_places") /\ item.decimal_places # None)

\* warn with a slip: nothing is issued.
warn_nothing(warnings, message) == warnings

\* warnings.warn(message, UserWarning)
warn(warnings, message) == Append(warnings, message)

\* One pass of the body of `for item in field.metadata:` of _convert_field:
\* kw (drf_field_kwargs) takes the length, precision or numeric bound of
\* item.
process_item(item, kw, warnings) ==
    LET go(kwargs, w) == Constrained("none", "", kwargs, w)
        fail(exc, msg, w) == Constrained(exc, msg, kw, w)
        length(kwargs, key, n, pick) ==
            \* the entry for key, or <<>> when computing it raised
            IF n = None THEN <<Get(kwargs, key)>>
            ELSE Narrowed(kwargs, key, n[1], pick)
        bound(key, msg, warning) ==
            IF already_set(kw, key)
            THEN fail("FieldConversionError", msg, warnings)
            ELSE LET w == IF warning = "" THEN warnings
                          ELSE warn(warnings, warning)
                 IN IF item.bound.numeric
                    THEN go(Set(kw, key, Some(item.bound.v)), w)
                    ELSE \* decimal.Decimal(value) raised TypeError: pass
                         go(kw, w)
    IN CASE item.kind = "StringConstraints" ->
              LET lo == length(kw, "min_length", item.min_length, "max")
              IN IF lo = <<>> THEN fail("TypeError", "", warnings)
                 ELSE LET kw1 == Set(kw, "min_length", lo[1])
                          hi == length(kw1, "max_length", item.max_length, "min")
                      IN IF hi = <<>> THEN fail("TypeError", "", warnings)
                         ELSE go(Set(kw1, "max_length", hi[1]), warnings)
         [] item.kind = "MinLen" ->
              LET lo == Narrowed(kw, "min_length", item.min_length[1], "max")
              IN IF lo = <<>> THEN fail("TypeError", "", warnings)
                 ELSE go(Set(kw, "min_length", lo[1]), warnings)
         [] item.kind = "MaxLen" ->
              LET hi == Narrowed(kw, "max_length", item.max_length[1], "min")
              IN IF hi = <<>> THEN fail("TypeError", "", warnings)
                 ELSE go(Set(kw, "max_length", hi[1]), warnings)
         [] item.kind = "PydanticMetadata" ->
              IF precision_conflict(kw, item)
              THEN fail("FieldConversionError",
                        "Field has multiple max_digits or decimal_places conflicting constraints.",
                        warnings)
              ELSE LET kw1 == IF item.max_digits # None
                              THEN Set(kw, "max_digits", item.max_digits)
                              ELSE kw
                       kw2 == IF item.decimal_places # None
                              THEN Set(kw1, "decimal_places", item.decimal_places)
                              ELSE kw1
                   IN go(kw2, warnings)
         [] item.kind = "Ge" ->
              bound("min_value",
                    "Field has multiple conflicting min_value constraints", "")
         [] item.kind = "Gt" ->
              bound("min_value",
                    "Field has multiple conflicting min_value constraints",
                    "gt (>) is not supported by DRF, using ge (>=) instead")
         [] item.kind = "Le" ->
              bound("max_value",
                    "Field has multiple conflicting max_value constraints", "")
         [] item.kind = "Lt" ->
              bound("max_value",
                    "Field has multiple conflicting max_value constraints",
                    "lt (<) is not supported by DRF, using le (<=) instead")
         [] OTHER -> go(kw, warnings)

\* `for item in field.metadata:` of _convert_field from item i on; an
\* exception ends the loop.
RECURSIVE process_constraints(_, _, _, _)
process_constraints(metadata, i, drf_field_kwargs, warnings) ==
    IF i > Len(metadata)
    THEN Constrained("none", "", drf_field_kwargs, warnings)
    ELSE LET r == process_item(metadata[i], drf_field_kwargs, warnings)
         IN IF r.exc # "none" THEN r
            ELSE process_constraints(metadata, i + 1, r.kwargs, r.warnings)

\* The end of _convert_field, c being what the loop over the constraints
\* ended in: the annotation is converted with the keyword arguments.
convert_constrained(field, drf_config, st, depth, c) ==
    IF c.exc = "FieldConversionError"
    THEN FieldError([st EXCEPT !.warnings = c.warnings], c.msg)
    ELSE IF c.exc # "none"
    THEN Raise([st EXCEPT !.warnings = c.warnings], c.exc, NoInfo)
    ELSE _convert_type(field.annotation, drf_config, field, c.kwargs,
                       [st EXCEPT !.warnings = c.warnings], depth)

\* _convert_field deriving the required flag of a manual serializer field
\* from the annotated field instead of returning it as constructed.
_convert_field_overriding_required(field, drf_config, st, depth) ==
    LET manual_drf_fields ==
            SelectSeq(field.metadata, LAMBDA item : item.kind = "DrfField")
    IN IF Len(manual_drf_fields) = 1
       THEN Return(st, [manual_drf_fields[1].field[1] EXCEPT
                            !.kwargs = Set(@, "required", field.required)])
       ELSE IF Len(manual_drf_fields) > 1
       THEN FieldError(st, "Field has multiple conflicting DRF serializer fields")
       ELSE convert_constrained(field, drf_config, st, depth,
                process_constraints(field.metadata, 1,
                                    ("required" :> field.required),
                                    st.warnings))

\* _convert_field(field, drf_config): a field carrying one manual DRF field
\* returns it, one carrying several raises; any other is converted by its
\* annotation with the keyword arguments its metadata gives.  The fields
\* here have no default, description or title.
_convert_field(field, drf_config, st, depth) ==
    LET manual_drf_fields ==
            SelectSeq(field.metadata, LAMBDA item : item.kind = "DrfField")
    IN IF Len(manual_drf_fields) = 1
       THEN Return(st, manual_drf_fields[1].field[1])
       ELSE IF Len(manual_drf_fields) > 1
       THEN FieldError(st, "Field has multiple conflicting DRF serializer fields")
       ELSE convert_constrained(field, drf_config, st, depth,
                process_constraints(field.metadata, 1,
                                    ("required" :> field.required),
                                    st.warnings))

\* One pass of the field loop of create_serializer_from_model, r being what
\* _convert_field ended in for field: the field is kept, or its
\* FieldConversionError recorded under its name; any other exception leaves
\* the loop.
collect_field(field, r, errors, fields) ==
    IF r.exc = "none"
    THEN [exc |-> "none", info |-> NoInfo, st |-> r.st, errors |-> errors,
          fields |-> Append(fields, <<field.name, r.val>>)]
    ELSE IF r.exc = "FieldConversionError"
    THEN [exc |-> "none", info |-> NoInfo, st |-> r.st,
          errors |-> Append(errors, <<field.name, r.info.msg>>),
          fields |-> fields]
    ELSE [exc |-> r.exc, info |-> r.info, st |-> r.st,
          errors |-> errors, fields |-> fields]

\* The rest of the field loop after a pass that ended in c.
RECURSIVE continue_fields(_, _, _, _, _)
continue_fields(model_fields_, i, drf_config, c, depth) ==
    IF c.exc # "none" THEN c
    ELSE convert_model_fields(model_fields_, i, drf_config, c.st,
                              c.errors, c.fields, depth)

\* The field loop of create_serializer_from_model from field i on.
convert_model_fields(model_fields_, i, drf_config, st, errors, fields, depth) ==
    IF i > Len(model_fields_)
    THEN [exc |-> "none", info |-> NoInfo, st |-> st,
          errors |-> errors, fields |-> fields]
    ELSE continue_fields(model_fields_, i + 1, drf_config,
             collect_field(model_fields_[i],
                           _convert_field(model_fields_[i], drf_config, st, depth),
                           errors, fields),
             depth)

\* store_class with a slip: the class is stored before the errors of the
\* field loop are looked at.
store_class_first(pydantic_model, config, r) ==
    LET class == [id |-> r.st.count + 1, model |-> pydantic_model,
                  config |-> config, fields |-> r.fields]
        stored == [r.st EXCEPT !.count = @ + 1,
                               !.registry = (pydantic_model :> class) @@ @]
    IN IF r.exc # "none"
       THEN Raise(r.st, r.exc, r.info)
       ELSE IF Len(r.errors) > 0
       THEN Raise(stored, "ModelConversionError",
                  [model |-> pydantic_model, errors |-> r.errors, msg |-> "",
                   type_ |-> NoType])
       ELSE Return(stored, class)

\* build_serializer with a slip: the class is stored before the errors of
\* the field loop are looked at.
build_serializer_storing_first(pydantic_model, drf_config, st, depth) ==
    IF drf_config = EmptyConfig /\ pydantic_model \notin DrfModels
    THEN Raise([st EXCEPT !.tried = @ \cup {pydantic_model}],
               "AttributeError", NoInfo)
    ELSE store_class_first(pydantic_model,
             IF drf_config # EmptyConfig THEN drf_config
             ELSE class_drf_config(pydantic_model),
             convert_model_fields(model_fields(pydantic_model), 1,
                 IF drf_config # EmptyConfig THEN drf_config
                 ELSE class_drf_config(pydantic_model),
                 [st EXCEPT !.tried = @ \cup {pydantic_model}],
                 <<>>, <<>>, depth))

\* The end of the body of `if pydantic_model not in SERIALIZER_REGISTRY:`, r
\* being what the field loop ended in: the errors are raised, or the class
\* is created and stored.
store_class(pydantic_model, config, r) ==
    IF r.exc # "none"
    THEN Raise(r.st, r.exc, r.info)
    ELSE IF Len(r.errors) > 0
    THEN Raise(r.st, "ModelConversionError",
               [model |-> pydantic_model, errors |-> r.errors, msg |-> "",
                   type_ |-> NoType])
    ELSE LET class == [id |-> r.st.count + 1,
                       model |-> pydantic_model,
                       config |-> config,
                       fields |-> r.fields]
         IN Return([r.st EXCEPT
                       !.count = @ + 1,
                       !.registry = (pydantic_model :> class) @@ @],
                   class)

\* The body of `if pydantic_model not in SERIALIZER_REGISTRY:`, which builds
\* the serializer class and stores it; st.tried records that it was entered.
build_serializer(pydantic_model, drf_config, st, depth) ==
    IF drf_config = EmptyConfig /\ pydantic_model \notin DrfModels
    THEN \* getattr(pydantic_model, "drf_config") on a plain pydantic model
         Raise([st EXCEPT !.tried = @ \cup {pydantic_model}],
               "AttributeError", NoInfo)
    ELSE store_class(pydantic_model,
             IF drf_config # EmptyConfig THEN drf_config
             ELSE class_drf_config(pydantic_model),
             convert_model_fields(model_fields(pydantic_model), 1,
                 IF drf_config # EmptyConfig THEN drf_config
                 ELSE class_drf_config(pydantic_model),
                 [st EXCEPT !.tried = @ \cup {pydantic_model}],
                 <<>>, <<>>, depth))

\* create_serializer_from_model with a slip: the cached class is reused only
\* for the config it was built with.
create_serializer_per_config(pydantic_model, drf_config, st, depth) ==
    IF depth > MaxDepth
    THEN Raise(st, "RecursionError", NoInfo)
    ELSE IF pydantic_model \notin DOMAIN st.registry
            \/ (drf_config # EmptyConfig
                /\ st.registry[pydantic_model].config # drf_config)
    THEN build_serializer(pydantic_model, drf_config, st, depth)
    ELSE Return(st, st.registry[pydantic_model])

create_serializer_from_model(pydantic_model, drf_config, st, depth) ==
    IF depth > MaxDepth
    THEN Raise(st, "RecursionError", NoInfo)
    ELSE IF pydantic_model \notin DOMAIN st.registry
    THEN build_serializer(pydantic_model, drf_config, st, depth)
    ELSE Return(st, st.registry[pydantic_model])

\* ------------------------------------------------------------------ state

VARIABLES
    SERIALIZER_REGISTRY,  \* parse.SERIALIZER_REGISTRY: model -> serializer class
    class_count,          \* serializer classes created so far (identities)
    drf_serializer,       \* the drf_serializer attribute of the defined drf models
    call,                 \* the last call made and how it ended
    returned,             \* model -> classes its calls returned since the last clear
    ser,                  \* the serializer instance under validation
    outcome,              \* the last operation on it and how it ended
    accepted,             \* an is_valid call on the instance ended in Accepted
    built,                \* the instance the source model constructor returned then
    classes,              \* the class table: drf_pydantic.BaseModel and its descendants
    conv,                 \* the last field converted on its own and the result
    checked               \* the last input an enum field validated and the result

registry_vars == <<SERIALIZER_REGISTRY, class_count, drf_serializer, call,
                   returned>>
validation_vars == <<ser, outcome, accepted, built>>
config_vars == <<classes>>
convert_vars == <<conv, checked>>
vars == <<registry_vars, validation_vars, config_vars, convert_vars>>

NoCall == [op |-> "none", model |-> "", drf_config |-> EmptyConfig,
           exc |-> "none", info |-> NoInfo, cls |-> 0, tried |-> {}]

\* The record of a call of create_serializer_from_model that ended as r.
CallRecord(op, m, drf_config, r) ==
    [op |-> op, model |-> m, drf_config |-> drf_config, exc |-> r.exc,
     info |-> r.info, cls |-> IF r.exc = "none" THEN r.val.id ELSE 0,
     tried |-> r.st.tried]

Store == [registry |-> SERIALIZER_REGISTRY, count |-> class_count,
          tried |-> {}, drf_serializer |-> drf_serializer,
          warnings |-> <<>>]

RegistryInit ==
    /\ SERIALIZER_REGISTRY = EmptyConfig
    /\ class_count = 0
    /\ drf_serializer = EmptyConfig
    /\ call = NoCall
    /\ returned = [m \in Models |-> {}]

\* The configs callers pass as drf_config (EmptyConfig: None, or {}).
CallConfigs == {EmptyConfig,
                [validate_pydantic |-> TRUE],
                [validate_pydantic |-> TRUE, validation_error |-> "pydantic",
                 backpopulate_after_validation |-> FALSE]}

\* A caller runs create_serializer_from_model(m, drf_config).
CreateSerializer(m, drf_config) ==
    /\ class_count < MaxClasses
    /\ m \in PlainModels \cup DOMAIN drf_serializer
    /\ \E r \in {create_serializer_from_model(m, drf_config, Store, 0)} :
          /\ SERIALIZER_REGISTRY' = r.st.registry
          /\ class_count' = r.st.count
          /\ call' = CallRecord("create", m, drf_config, r)
          /\ returned' = IF r.exc = "none"
                         THEN [returned EXCEPT ![m] = @ \cup {r.val.id}]
                         ELSE returned
          /\ UNCHANGED <<drf_serializer, validation_vars, config_vars, convert_vars>>

\* The class statement of a drf_pydantic.BaseModel subclass runs: the class
\* hook builds the serializer unless the registry has one and binds it to
\* the class attribute drf_serializer.  When the build raises, the class
\* statement raises and the class is not bound.
DefineModel(m) ==
    /\ class_count < MaxClasses
    /\ m \in DrfModels \ DOMAIN drf_serializer
    /\ (Referenced(m) \cap DrfModels) \subseteq DOMAIN drf_serializer
    /\ \E r \in {create_serializer_from_model(m, EmptyConfig, Store, 0)} :
          /\ SERIALIZER_REGISTRY' = r.st.registry
          /\ class_count' = r.st.count
          /\ call' = CallRecord("define", m, EmptyConfig, r)
          /\ drf_serializer' = IF r.exc = "none"
                               THEN (m :> r.val) @@ drf_serializer
                               ELSE drf_serializer
          /\ returned' = IF r.exc = "none"
                         THEN [returned EXCEPT ![m] = @ \cup {r.val.id}]
                         ELSE returned
          /\ UNCHANGED <<validation_vars, config_vars, convert_vars>>

\* SERIALIZER_REGISTRY.clear()
ClearRegistry ==
    /\ SERIALIZER_REGISTRY # EmptyConfig
    /\ SERIALIZER_REGISTRY' = EmptyConfig
    /\ call' = [NoCall EXCEPT !.op = "clear"]
    /\ returned' = [m \in Models |-> {}]
    /\ UNCHANGED <<class_count, drf_serializer, validation_vars, config_vars, convert_vars>>

RegistryNext ==
    \/ \E m \in Models, drf_config \in CallConfigs : CreateSerializer(m, drf_config)
    \/ \E m \in DrfModels : DefineModel(m)
    \/ ClearRegistry


\* --------------------------------------------------- claims: the registry

IsCall == call.op \in {"create", "define"}

\* C1: between two clears of the registry, every call of
\* create_serializer_from_model for one model that returns, returns the same
\* serializer class, whatever drf_config the call passes.
C1_SameClassReturned ==
    \A m \in Models : Cardinality(returned[m]) <= 1

\* A later call finds the class in the registry, passes a config that is not
\* the one the class was built with, and gets the class returned before.
C1_Witness ==
    /\ call.op = "create" /\ call.exc = "none"
    /\ call.model \notin call.tried
    /\ call.drf_config # EmptyConfig
    /\ SERIALIZER_REGISTRY[call.model].config # call.drf_config
    /\ returned[call.model] = {call.cls}

\* C2: when a build ends in a ModelConversionError, the registry has no
\* entry for the model of the call nor for the model the error names, and
\* the next call for the model enters the build again.
C2_FailedBuildNotCached ==
    /\ [](IsCall /\ call.exc = "ModelConversionError"
            => /\ call.model \notin DOMAIN SERIALIZER_REGISTRY
               /\ call.info.model \notin DOMAIN SERIALIZER_REGISTRY)
    /\ [][(/\ IsCall /\ call.exc = "ModelConversionError"
           /\ call'.op \in {"create", "define"}
           /\ call'.model = call.model)
            => /\ call'.model \in call'.tried
               /\ call'.cls = 0]_registry_vars

\* A build failed, and the call after it, made with another config, failed
\* in the build again.
C2_Witness ==
    /\ call.op = "create" /\ call.exc = "ModelConversionError"
    /\ call.model = "Faulty" /\ call.model \in call.tried
    /\ call.drf_config = [validate_pydantic |-> TRUE]
    /\ call.model \notin DOMAIN SERIALIZER_REGISTRY

\* The fields of m whose conversion, run on the current store, raises a
\* conversion error.
Offending(m, drf_config) ==
    {model_fields(m)[i].name : i \in
        {j \in DOMAIN model_fields(m) :
            _convert_field(model_fields(m)[j], drf_config, Store, 0).exc
                \in {"FieldConversionError", "ModelConversionError"}}}

\* C3: a build whose field loop meets failing fields raises one
\* ModelConversionError that names the model of the call and lists every
\* failing field of it.
C3_EveryFailingFieldListed ==
    [][\A m \in Models :
        (/\ call'.op \in {"create", "define"} /\ call'.model = m
         /\ m \notin DOMAIN SERIALIZER_REGISTRY
         /\ (call'.drf_config # EmptyConfig \/ m \in DrfModels)
         /\ Offending(m, call'.drf_config) # {})
        => /\ call'.exc = "ModelConversionError"
           /\ call'.info.model = m
           /\ {e[1] : e \in Range(call'.info.errors)}
                = Offending(m, call'.drf_config)]_registry_vars

\* The nested serializers a field holds: the field itself or, through
\* list and dict fields, its child.
RECURSIVE NestedSerializers(_)
NestedSerializers(val) ==
    (IF val.field = "Serializer" THEN {val} ELSE {})
    \cup UNION {NestedSerializers(val.child[i]) : i \in DOMAIN val.child}

\* The class of the registry a nested serializer instantiates, if any.
RegisteredClass(id) ==
    {SERIALIZER_REGISTRY[m] : m \in {n \in DOMAIN SERIALIZER_REGISTRY :
                                        SERIALIZER_REGISTRY[n].id = id}}

\* The nested serializers for plain models held by the class a call
\* returned, each paired with the config of the class that holds it.
PlainNested ==
    IF IsCall /\ call.exc = "none" /\ call.model \in DOMAIN SERIALIZER_REGISTRY
    THEN LET class == SERIALIZER_REGISTRY[call.model]
         IN UNION {RegisteredClass(s.cls) :
                    s \in UNION {NestedSerializers(class.fields[i][2]) :
                                  i \in DOMAIN class.fields}}
    ELSE {}

RefersToItself(m) == m \in Referenced(m)

\* C12: a call that converts a model one of whose field types refers to the
\* model itself ends, and ends with the serializer class of the model: the
\* recursion into the model finds the class in the registry and starts no
\* build of its own.
C12_SelfReferenceTerminates ==
    (IsCall /\ RefersToItself(call.model) /\ call.drf_config # EmptyConfig)
        => call.exc = "none" /\ call.cls # 0

\* The plain models the field types of m name, m itself left out.
PlainNestedModels(m) == (Referenced(m) \cap PlainModels) \ {m}

InputName(field) ==
    IF field.validation_alias # "" THEN field.validation_alias ELSE field.name

\* C14: a serializer class built from a model has one declared field for
\* each field of the model and no other, the field being declared under
\* the validation alias of the model field when it has one and under the
\* name of the model field otherwise.
C14_OneFieldPerSourceField ==
    \A m \in DOMAIN SERIALIZER_REGISTRY :
        LET class == SERIALIZER_REGISTRY[m]
        IN /\ Len(class.fields) = Len(model_fields(m))
           /\ \A i \in DOMAIN class.fields :
                 class.fields[i][1] = InputName(model_fields(m)[i])

\* The fields of m typed by a plain model whose own build, run on the
\* current store, ends in a ModelConversionError.
NestedFailing(m, drf_config) ==
    {model_fields(m)[i].name : i \in
        {j \in DOMAIN model_fields(m) :
            /\ model_fields(m)[j].annotation.k = "class"
            /\ model_fields(m)[j].annotation.t \in PlainModels
            /\ _convert_field(model_fields(m)[j], drf_config, Store, 0).exc
                  = "ModelConversionError"}}

\* The field names a ModelConversionError lists.
Listed(info) == {e[1] : e \in Range(info.errors)}

\* C25: when the conversion of a field of a parent model recurses into a
\* nested plain model whose build fails, the build of the parent raises a
\* ModelConversionError that names the parent, lists that field and lists
\* every other offending field of the parent.
C25_NestedFailureListedUnderParent ==
    [][\A m \in Models :
        (/\ call'.op \in {"create", "define"} /\ call'.model = m
         /\ m \notin DOMAIN SERIALIZER_REGISTRY
         /\ (call'.drf_config # EmptyConfig \/ m \in DrfModels)
         /\ NestedFailing(m, call'.drf_config) # {})
        => /\ call'.exc = "ModelConversionError"
           /\ call'.info.model = m
           /\ NestedFailing(m, call'.drf_config) \subseteq Listed(call'.info)
           /\ Offending(m, call'.drf_config) \subseteq Listed(call'.info)
      ]_registry_vars

MaxErrors == 2

NON_FIELD_ERRORS_KEY == "non_field_errors"

\* .get(key) is truthy
Truthy(config, key) == key \in DOMAIN config /\ config[key] = TRUE

\* ----------------------------------------------------------------- values
\* A value: a primitive, a source-model instance, a mapping or a list.
Prim(v) == [kind |-> "prim", v |-> v, items |-> <<>>]
Instance(items) == [kind |-> "model", v |-> "", items |-> items]
Mapping(items) == [kind |-> "dict", v |-> "", items |-> items]
List(items) == [kind |-> "list", v |-> "", items |-> items]

\* pydantic's BaseModel.model_dump(): the instance as a mapping, the models
\* inside it dumped as well.
RECURSIVE dump(_)
dump(value) ==
    LET items == [i \in DOMAIN value.items |-> dump(value.items[i])]
    IN IF value.kind = "model" THEN Mapping(items)
       ELSE [value EXCEPT !.items = items]
model_dump(value) == dump(value)

\* What the attributes of a constructed source-model instance may hold.
AttrValues == {Prim("a"), Prim("b"),
               Instance(<<Prim("b")>>),
               List(<<Instance(<<Prim("b")>>)>>)}

\* The raw input a field may be given; "bad" fails the field's own checks.
RawValues == {"a", "bad"}

\* ----------------------------------------------------- the source's errors
\* A segment of an error location: a field name or an index.
Name(v) == [type |-> "str", v |-> v]
Index(v) == [type |-> "int", v |-> v]

Locs == {<<>>, <<Name("name")>>, <<Name(NON_FIELD_ERRORS_KEY)>>,
         <<Name("ghost")>>, <<Index("0")>>}
SourceError(loc) == [loc |-> loc, msg |-> "Value error", type |-> "value_error"]
RECURSIVE SeqsUpTo(_, _)
SeqsUpTo(S, n) ==
    IF n = 0 THEN {<<>>}
    ELSE LET shorter == SeqsUpTo(S, n - 1)
         IN shorter \cup {Append(q, x) : q \in shorter, x \in S}
ErrorLists == SeqsUpTo({SourceError(loc) : loc \in Locs}, MaxErrors) \ {<<>>}

\* json.dumps({"loc": ..., "msg": ..., "type": ...})
json_dumps(error) == [json |-> <<error.loc, error.msg, error.type>>]

\* What constructing the source model from attrs ends in: an instance, or a
\* pydantic.ValidationError with its errors().
NoInstance == [kind |-> "none", attrs |-> EmptyConfig]
NoSource == [ok |-> FALSE, errors |-> <<>>, instance |-> NoInstance]
SourceOutcomes(model_fields_) ==
    {[ok |-> FALSE, errors |-> errs, instance |-> NoInstance] : errs \in ErrorLists}
    \cup {[ok |-> TRUE, errors |-> <<>>,
           instance |-> [kind |-> "instance", attrs |-> attrs]] :
          attrs \in [model_fields_ -> AttrValues]}

\* ------------------------------------------------ DrfPydanticSerializer
\* A serializer instance: the _drf_config of its class, the names of its
\* fields, the names of the fields of its _pydantic_model, initial_data,
\* whether _validated_data is set, _validated_data, _errors and
\* __pydantic_instance.

NoSerializer ==
    [exists |-> FALSE, config |-> EmptyConfig, fields |-> {},
     model_fields |-> {}, initial_data |-> EmptyConfig,
     has_validated_data |-> FALSE, validated_data |-> EmptyConfig,
     errors |-> EmptyConfig, pydantic_instance |-> NoInstance]

\* DrfPydanticSerializer.__init__
__init__(config, fields, model_fields_, data) ==
    [exists |-> TRUE, config |-> config, fields |-> fields,
     model_fields |-> model_fields_, initial_data |-> data,
     has_validated_data |-> FALSE, validated_data |-> EmptyConfig,
     errors |-> EmptyConfig, pydantic_instance |-> NoInstance]

\* The property DrfPydanticSerializer.pydantic_instance.
pydantic_instance(self) ==
    IF ~Truthy(self.config, "validate_pydantic")
    THEN [exc |-> "AssertionError",
          msg |-> "You must enable pydantic validation",
          val |-> NoInstance]
    ELSE IF self.pydantic_instance = NoInstance
    THEN [exc |-> "AssertionError",
          msg |-> "You must call .is_valid() before",
          val |-> NoInstance]
    ELSE [exc |-> "none", msg |-> "", val |-> self.pydantic_instance]

\* translate_errors with a slip: the test that the name is one of the
\* serializer's fields is missing.
RECURSIVE translate_errors_any_name(_, _, _, _, _)
translate_errors_any_name(errors, i, fields, field_errors, non_field_errors) ==
    IF i > Len(errors)
    THEN [field_errors |-> field_errors, non_field_errors |-> non_field_errors]
    ELSE LET error == errors[i]
             message == json_dumps(error)
             global == IF Len(error.loc) = 0 THEN TRUE
                       ELSE error.loc[1].type # "str"
         IN IF global
            THEN translate_errors_any_name(errors, i + 1, fields, field_errors,
                                           Append(non_field_errors, message))
            ELSE LET key == error.loc[1].v
                     bucket == IF key \in DOMAIN field_errors
                               THEN field_errors[key] ELSE <<>>
                 IN translate_errors_any_name(errors, i + 1, fields,
                        (key :> Append(bucket, message)) @@ field_errors,
                        non_field_errors)

\* The loop over exc.errors() from error i on: each message goes to the
\* bucket of the field its location starts with, or to non_field_errors.
RECURSIVE translate_errors(_, _, _, _, _)
translate_errors(errors, i, fields, field_errors, non_field_errors) ==
    IF i > Len(errors)
    THEN [field_errors |-> field_errors, non_field_errors |-> non_field_errors]
    ELSE LET error == errors[i]
             message == json_dumps(error)
             global == IF Len(error.loc) = 0 THEN TRUE
                       ELSE IF error.loc[1].type # "str" THEN TRUE
                       ELSE error.loc[1].v \notin fields
         IN IF global
            THEN translate_errors(errors, i + 1, fields, field_errors,
                                  Append(non_field_errors, message))
            ELSE LET key == error.loc[1].v
                     bucket == IF key \in DOMAIN field_errors
                               THEN field_errors[key] ELSE <<>>
                 IN translate_errors(errors, i + 1, fields,
                        (key :> Append(bucket, message)) @@ field_errors,
                        non_field_errors)

\* The detail of the serializers.ValidationError raised:
\* {NON_FIELD_ERRORS_KEY: non_field_errors, **field_errors}
error_detail(field_errors, non_field_errors) ==
    Update((NON_FIELD_ERRORS_KEY :> non_field_errors), field_errors)

\* backpopulate with a slip: a model-valued attribute is not dumped.
backpopulate_without_dump(return_value, validated_pydantic_model) ==
    [key \in DOMAIN return_value |->
        IF key \notin DOMAIN validated_pydantic_model.attrs
        THEN return_value[key]
        ELSE validated_pydantic_model.attrs[key]]

\* The back-population loop over return_value; a key the instance has no
\* attribute for is left as it is.
backpopulate(return_value, validated_pydantic_model) ==
    [key \in DOMAIN return_value |->
        IF key \notin DOMAIN validated_pydantic_model.attrs
        THEN return_value[key]
        ELSE LET pydantic_value == validated_pydantic_model.attrs[key]
             IN IF pydantic_value.kind = "model"
                THEN model_dump(pydantic_value)
                ELSE pydantic_value]

\* What a call of validate() ended in.
ValidateResult(exc, return_value, instance, constructed) ==
    [exc |-> exc, detail |-> EmptyConfig, source_errors |-> <<>>,
     return_value |-> return_value, pydantic_instance |-> instance,
     constructed |-> constructed,
     field_errors |-> EmptyConfig, non_field_errors |-> <<>>]

\* The except branch of validate(): the source error exc is raised again
\* or translated, as the validation_error key says.
source_rejected(self, src) ==
    LET unchanged == self.pydantic_instance
    IN IF "validation_error" \in DOMAIN self.config
          /\ self.config["validation_error"] = "pydantic"
       THEN [ValidateResult("pydantic.ValidationError", EmptyConfig,
                            unchanged, TRUE)
               EXCEPT !.source_errors = src.errors]
       ELSE IF ~("validation_error" \in DOMAIN self.config
                 /\ self.config["validation_error"] = "drf")
       THEN ValidateResult("AssertionError", EmptyConfig, unchanged, TRUE)
       ELSE LET t == translate_errors(src.errors, 1, self.fields,
                                      EmptyConfig, <<>>)
            IN [ValidateResult("serializers.ValidationError",
                               EmptyConfig, unchanged, TRUE)
                  EXCEPT !.detail = error_detail(t.field_errors,
                                                 t.non_field_errors),
                         !.source_errors = src.errors,
                         !.field_errors = t.field_errors,
                         !.non_field_errors = t.non_field_errors]

\* validate with a slip: the source error is translated whatever the
\* validation_error key says.
validate_always_translating(self, attrs, src) ==
    IF ~Truthy(self.config, "validate_pydantic")
    THEN ValidateResult("none", attrs, self.pydantic_instance, FALSE)
    ELSE IF ~src.ok
    THEN source_rejected([self EXCEPT !.config =
                             Update(@, [validation_error |-> "drf"])], src)
    ELSE ValidateResult("none",
             IF Truthy(self.config, "backpopulate_after_validation")
             THEN backpopulate(attrs, src.instance)
             ELSE attrs,
             src.instance, TRUE)

\* validate with a slip: the instance is kept only inside the
\* back-population branch.
validate_keeping_instance_late(self, attrs, src) ==
    IF ~Truthy(self.config, "validate_pydantic")
    THEN ValidateResult("none", attrs, self.pydantic_instance, FALSE)
    ELSE IF ~src.ok
    THEN source_rejected(self, src)
    ELSE IF Truthy(self.config, "backpopulate_after_validation")
    THEN ValidateResult("none", backpopulate(attrs, src.instance),
                        src.instance, TRUE)
    ELSE ValidateResult("none", attrs, self.pydantic_instance, TRUE)

\* DrfPydanticSerializer.validate(attrs); src is what constructing
\* self._pydantic_model(**attrs) ends in.
validate(self, attrs, src) ==
    LET return_value == attrs
    IN IF ~Truthy(self.config, "validate_pydantic")
       THEN ValidateResult("none", return_value, self.pydantic_instance, FALSE)
       ELSE IF ~src.ok
       THEN source_rejected(self, src)
       ELSE ValidateResult("none",
                IF Truthy(self.config, "backpopulate_after_validation")
                THEN backpopulate(return_value, src.instance)
                ELSE return_value,
                src.instance, TRUE)

\* The message of a field that failed the derived serializer's own checks.
DerivedMessage == [json |-> <<"invalid">>]

\* Serializer.to_internal_value(data): every field validates its own input;
\* the errors are keyed by the fields that failed.
to_internal_value(self) ==
    LET failed == {f \in self.fields : self.initial_data[f] = "bad"}
    IN IF failed # {}
       THEN [exc |-> "serializers.ValidationError",
             detail |-> [f \in failed |-> <<DerivedMessage>>],
             value |-> EmptyConfig]
       ELSE [exc |-> "none", detail |-> EmptyConfig,
             value |-> [f \in self.fields |-> Prim(self.initial_data[f])]]

\* run_validation with a slip: the source model is constructed from the
\* raw input before the fields are validated.
run_validation_source_first(self, src) ==
    LET internal == to_internal_value(self)
        raw == [f \in self.fields |-> Prim(self.initial_data[f])]
        r == validate(self, raw, src)
    IN IF r.exc # "none"
       THEN r @@ [derived_ok |-> internal.exc = "none", derived |-> EmptyConfig]
       ELSE IF internal.exc # "none"
       THEN [ValidateResult(internal.exc, EmptyConfig,
                            r.pydantic_instance, r.constructed)
               EXCEPT !.detail = internal.detail]
            @@ [derived_ok |-> FALSE, derived |-> EmptyConfig]
       ELSE r @@ [derived_ok |-> TRUE, derived |-> internal.value]

\* Serializer.run_validation(data) as DrfPydanticSerializer inherits it:
\* to_internal_value, then the validate() override.
run_validation(self, src) ==
    LET internal == to_internal_value(self)
        r == validate(self, internal.value, src)
    IN IF internal.exc # "none"
       THEN [ValidateResult(internal.exc, EmptyConfig,
                            self.pydantic_instance, FALSE)
               EXCEPT !.detail = internal.detail]
            @@ [derived_ok |-> FALSE, derived |-> EmptyConfig]
       ELSE r @@ [derived_ok |-> TRUE, derived |-> internal.value]

\* Serializer.is_valid(raise_exception): the serializer afterwards and how
\* the call ended.
is_valid(self, raise_exception, src) ==
    LET ran == ~self.has_validated_data
        r == run_validation(self, src)
        after ==
            IF ~ran THEN self
            ELSE IF r.exc = "serializers.ValidationError"
            THEN [self EXCEPT !.has_validated_data = TRUE,
                              !.validated_data = EmptyConfig,
                              !.errors = r.detail,
                              !.pydantic_instance = r.pydantic_instance]
            ELSE IF r.exc = "none"
            THEN [self EXCEPT !.has_validated_data = TRUE,
                              !.validated_data = r.return_value,
                              !.errors = EmptyConfig,
                              !.pydantic_instance = r.pydantic_instance]
            ELSE [self EXCEPT !.pydantic_instance = r.pydantic_instance]
        propagated == ran /\ r.exc \notin {"none", "serializers.ValidationError"}
        exc == IF propagated THEN r.exc
               ELSE IF after.errors # EmptyConfig /\ raise_exception
               THEN "serializers.ValidationError"
               ELSE "none"
    IN [self |-> after,
        outcome |->
            [op |-> "is_valid", raise_exception |-> raise_exception,
             ran |-> ran,
             derived_ok |-> ran /\ r.derived_ok,
             constructed |-> ran /\ r.constructed,
             exc |-> exc,
             result |-> exc = "none" /\ after.errors = EmptyConfig,
             detail |-> IF exc = "serializers.ValidationError"
                        THEN after.errors ELSE EmptyConfig,
             source_errors |-> IF propagated THEN r.source_errors ELSE <<>>,
             src |-> IF ran /\ r.constructed THEN src ELSE NoSource,
             derived |-> IF ran THEN r.derived ELSE EmptyConfig,
             field_errors |-> IF ran THEN r.field_errors ELSE EmptyConfig,
             non_field_errors |-> IF ran THEN r.non_field_errors ELSE <<>>,
             value |-> NoInstance]]

\* ------------------------------------------------- the validation machine


NoOutcome ==
    [op |-> "none", raise_exception |-> FALSE, ran |-> FALSE,
     derived_ok |-> FALSE, constructed |-> FALSE, exc |-> "none",
     result |-> FALSE, detail |-> EmptyConfig, source_errors |-> <<>>,
     src |-> NoSource, derived |-> EmptyConfig,
     field_errors |-> EmptyConfig, non_field_errors |-> <<>>,
     value |-> NoInstance]

ValidationInit ==
    /\ ser = NoSerializer
    /\ outcome = NoOutcome
    /\ accepted = FALSE
    /\ built = NoInstance

\* Every _drf_config a serializer class may carry: each key absent or set.
AllConfigs ==
    {[key \in keys |-> full[key]] :
        keys \in SUBSET ConfigKeys,
        full \in [validate_pydantic : BOOLEAN,
                  validation_error : {"drf", "pydantic"},
                  backpopulate_after_validation : BOOLEAN]}

\* The field names of a serializer class and of its source model: a
\* generated serializer has the fields of its model, a hand-written one may
\* declare a field the model does not have.
Shapes ==
    {[fields |-> {"name"}, model_fields |-> {"name"}],
     [fields |-> {"name", NON_FIELD_ERRORS_KEY},
      model_fields |-> {"name", NON_FIELD_ERRORS_KEY}],
     [fields |-> {"name", NON_FIELD_ERRORS_KEY}, model_fields |-> {"name"}]}

\* serializer_class(data=data)
Construct(config, shape, data) ==
    /\ ~ser.exists
    /\ ser' = __init__(config, shape.fields, shape.model_fields, data)
    /\ outcome' = [NoOutcome EXCEPT !.op = "construct"]
    /\ UNCHANGED <<accepted, built, registry_vars, config_vars, convert_vars>>

\* The source model constructor is reached by the next is_valid call.
NeedsSource(self) ==
    /\ ~self.has_validated_data
    /\ to_internal_value(self).exc = "none"
    /\ Truthy(self.config, "validate_pydantic")

\* serializer.is_valid(raise_exception=raise_exception)
IsValid(raise_exception) ==
    /\ ser.exists
    /\ \E src \in IF NeedsSource(ser) THEN SourceOutcomes(ser.model_fields)
                  ELSE {NoSource} :
        LET r == is_valid(ser, raise_exception, src)
        IN /\ ser' = r.self
           /\ outcome' = r.outcome
           /\ accepted' = (accepted \/ (r.outcome.ran /\ r.outcome.exc = "none"
                                         /\ r.outcome.result))
           /\ built' = IF r.outcome.ran /\ r.outcome.constructed /\ src.ok
                       THEN src.instance ELSE built
    /\ UNCHANGED <<registry_vars, config_vars, convert_vars>>

\* serializer.pydantic_instance
AccessPydanticInstance ==
    /\ ser.exists
    /\ LET r == pydantic_instance(ser)
       IN outcome' = [NoOutcome EXCEPT !.op = "pydantic_instance",
                                       !.exc = r.exc, !.value = r.val]
    /\ UNCHANGED <<ser, accepted, built, registry_vars, config_vars, convert_vars>>

ValidationNext ==
    \/ \E config \in AllConfigs, shape \in Shapes :
         \E data \in [shape.fields -> RawValues] : Construct(config, shape, data)
    \/ \E raise_exception \in BOOLEAN : IsValid(raise_exception)
    \/ AccessPydanticInstance

\* ------------------------------------------------ properties: validation

\* The last operation was an is_valid call that ran the validation.
Attempted == outcome.op = "is_valid" /\ outcome.ran

\* The validation_error key of the serializer's config is set to authority.
Authority(authority) ==
    /\ "validation_error" \in DOMAIN ser.config
    /\ ser.config["validation_error"] = authority

\* The last is_valid call constructed the source model and it refused.
SourceRejected == Attempted /\ outcome.constructed /\ ~outcome.src.ok

\* The last is_valid call constructed the source model and it accepted.
SourceAccepted == Attempted /\ outcome.constructed /\ outcome.src.ok

\* C4: in one validation attempt the source model is constructed only
\* after the serializer's own field validation has passed; when that
\* validation fails the attempt ends with the errors keyed by the failing
\* fields and the source model is not constructed, whatever the config.
C4_SourceOnlyAfterDerived ==
    Attempted =>
        /\ outcome.constructed => outcome.derived_ok
        /\ ~outcome.derived_ok =>
              /\ ~outcome.constructed
              /\ ser.errors =
                    [f \in {g \in ser.fields : ser.initial_data[g] = "bad"}
                        |-> <<DerivedMessage>>]
              /\ ser.errors # EmptyConfig
              /\ ~outcome.result
              /\ outcome.exc = IF outcome.raise_exception
                               THEN "serializers.ValidationError" ELSE "none"
              /\ ser.pydantic_instance = NoInstance
              /\ built = NoInstance

C4_Witness ==
    /\ Attempted
    /\ ~outcome.derived_ok
    /\ Truthy(ser.config, "validate_pydantic")
    /\ Authority("pydantic")
    /\ ~outcome.constructed
    /\ DOMAIN ser.errors = {"name"}

\* C5: reading pydantic_instance returns the constructed source-model
\* instance exactly when dual validation is enabled and an is_valid call on
\* this serializer was accepted; in every other state it raises
\* AssertionError.
C5_InstanceIffAccepted ==
    /\ ser.exists =>
          LET r == pydantic_instance(ser)
          IN IF Truthy(ser.config, "validate_pydantic") /\ accepted
             THEN r.exc = "none" /\ r.val = built /\ built # NoInstance
             ELSE r.exc = "AssertionError"
    /\ outcome.op = "pydantic_instance" =>
          IF Truthy(ser.config, "validate_pydantic") /\ accepted
          THEN outcome.exc = "none" /\ outcome.value = built
          ELSE outcome.exc = "AssertionError" /\ outcome.value = NoInstance

C5_Witness ==
    /\ outcome.op = "pydantic_instance"
    /\ outcome.exc = "none"
    /\ outcome.value = built
    /\ built # NoInstance
    /\ ~Truthy(ser.config, "backpopulate_after_validation")

\* C6: with dual validation enabled and the authority 'pydantic', a failure
\* of the source model leaves is_valid as the source error itself, for
\* raise_exception false and true alike; is_valid returns nothing and no
\* translated error is produced or stored.
C6_SourceErrorReraised ==
    SourceRejected /\ Authority("pydantic") =>
        /\ outcome.exc = "pydantic.ValidationError"
        /\ outcome.source_errors = outcome.src.errors
        /\ ~outcome.result
        /\ outcome.detail = EmptyConfig
        /\ outcome.field_errors = EmptyConfig
        /\ outcome.non_field_errors = <<>>
        /\ ser.errors = EmptyConfig
        /\ ~ser.has_validated_data

C6_Witness ==
    /\ SourceRejected
    /\ Authority("pydantic")
    /\ ~outcome.raise_exception
    /\ outcome.exc = "pydantic.ValidationError"
    /\ Len(outcome.source_errors) = MaxErrors

\* An error is field-level: its location is not empty, starts with a
\* string and that string names a field of the serializer.
FieldLevel(error, fields) ==
    /\ Len(error.loc) > 0
    /\ error.loc[1].type = "str"
    /\ error.loc[1].v \in fields

Messages(errors) == [i \in DOMAIN errors |-> json_dumps(errors[i])]

\* Every name an error location or a field may carry.
AllNames ==
    {loc[1].v : loc \in Locs \ {<<>>}} \cup UNION {sh.fields : sh \in Shapes}

\* C7: with the authority 'drf' the message of each error of a failed
\* source validation is in the bucket of field f exactly when the error's
\* location is non-empty, starts with a string and that string is f, a field
\* of the serializer; the message of every other error is in the global
\* bucket.
C7_ErrorsClassified ==
    SourceRejected /\ Authority("drf") =>
        /\ \A f \in AllNames :
              LET mine == SelectSeq(outcome.src.errors,
                              LAMBDA e : FieldLevel(e, ser.fields)
                                         /\ e.loc[1].v = f)
              IN IF mine = <<>>
                 THEN f \notin DOMAIN outcome.field_errors
                 ELSE /\ f \in DOMAIN outcome.field_errors
                      /\ outcome.field_errors[f] = Messages(mine)
        /\ DOMAIN outcome.field_errors \subseteq AllNames
        /\ outcome.non_field_errors =
              Messages(SelectSeq(outcome.src.errors,
                          LAMBDA e : ~FieldLevel(e, ser.fields)))

C7_Witness ==
    /\ SourceRejected
    /\ Authority("drf")
    /\ outcome.src.errors = <<SourceError(<<Name("name")>>),
                              SourceError(<<Name("ghost")>>)>>
    /\ DOMAIN outcome.field_errors = {"name"}
    /\ Len(outcome.non_field_errors) = 1

\* The fields that received at least one message of the failed source
\* validation.
OffendingFields ==
    {outcome.src.errors[i].loc[1].v :
        i \in {j \in DOMAIN outcome.src.errors :
                  FieldLevel(outcome.src.errors[j], ser.fields)}}

\* C8: the aggregate error of the authority 'drf' always holds the global
\* bucket and holds a bucket for a field only when the field received a
\* message: it has one key more than there are offending fields, and the
\* global bucket holds the messages that name no field.
C8_GlobalBucketAlwaysThere ==
    SourceRejected /\ Authority("drf") =>
        /\ outcome.exc = IF outcome.raise_exception
                         THEN "serializers.ValidationError" ELSE "none"
        /\ NON_FIELD_ERRORS_KEY \in DOMAIN ser.errors
        /\ ser.errors[NON_FIELD_ERRORS_KEY] = outcome.non_field_errors
        /\ \A f \in DOMAIN ser.errors \ {NON_FIELD_ERRORS_KEY} :
              f \in OffendingFields /\ Len(ser.errors[f]) >= 1
        /\ Cardinality(DOMAIN ser.errors) = 1 + Cardinality(OffendingFields)

\* C9 as the spec words it: after an accepted dual validation every output
\* value is the attribute of that name on the source instance when
\* back-population is on, the serializer's own value when it is off, and
\* the instance kept is the constructed one.
C9_OutputIsAttribute ==
    SourceAccepted =>
        /\ ser.pydantic_instance = outcome.src.instance
        /\ DOMAIN ser.validated_data = ser.fields
        /\ ("backpopulate_after_validation" \in DOMAIN ser.config
            /\ ser.config["backpopulate_after_validation"]) =>
              \A key \in DOMAIN ser.validated_data :
                  /\ key \in DOMAIN outcome.src.instance.attrs
                  /\ ser.validated_data[key] = outcome.src.instance.attrs[key]
        /\ ("backpopulate_after_validation" \in DOMAIN ser.config
            /\ ~ser.config["backpopulate_after_validation"]) =>
              ser.validated_data = outcome.derived

\* C9: after an accepted dual validation with back-population on, the
\* output value of every field that is an attribute of the source instance
\* is that attribute, dumped to a mapping when it is itself a model
\* instance, and the output of any other field is the serializer's own
\* value; with back-population off every output is the serializer's own
\* value; in both cases the instance kept is the constructed one.
C9_OutputIsAttributeOrItsDump ==
    SourceAccepted =>
        /\ ser.pydantic_instance = outcome.src.instance
        /\ DOMAIN ser.validated_data = ser.fields
        /\ ("backpopulate_after_validation" \in DOMAIN ser.config
            /\ ser.config["backpopulate_after_validation"]) =>
              \A key \in DOMAIN ser.validated_data :
                  LET attributes == outcome.src.instance.attrs
                  IN IF key \notin DOMAIN attributes
                     THEN ser.validated_data[key] = outcome.derived[key]
                     ELSE IF attributes[key].kind = "model"
                     THEN ser.validated_data[key] = model_dump(attributes[key])
                     ELSE ser.validated_data[key] = attributes[key]
        /\ ("backpopulate_after_validation" \in DOMAIN ser.config
            /\ ~ser.config["backpopulate_after_validation"]) =>
              ser.validated_data = outcome.derived

C9_Witness ==
    /\ SourceAccepted
    /\ Truthy(ser.config, "backpopulate_after_validation")
    /\ ser.fields = {"name", NON_FIELD_ERRORS_KEY}
    /\ ser.model_fields = {"name"}
    /\ outcome.src.instance.attrs["name"] = Instance(<<Prim("b")>>)
    /\ ser.validated_data["name"] = Mapping(<<Prim("b")>>)
    /\ ser.validated_data[NON_FIELD_ERRORS_KEY] = Prim("a")

\* The _drf_config of the class create_serializer_from_model builds for a
\* plain model when the caller's config sets validate_pydantic and nothing
\* else.
BuiltWithValidateOnly ==
    create_serializer_from_model("Job", [validate_pydantic |-> TRUE],
                                 Store, 0).val.config

\* C26: a serializer of a class built by create_serializer_from_model from
\* a config that sets validate_pydantic and omits the other keys behaves as
\* the defaults say: a source failure ends in the translated aggregate
\* error of the serializer, and a success back-populates the output.
C26_OmittedKeysDefault ==
    (/\ Attempted /\ outcome.constructed
     /\ ser.config = BuiltWithValidateOnly)
    => IF outcome.src.ok
       THEN /\ outcome.exc = "none"
            /\ ser.validated_data
                  = backpopulate(outcome.derived, outcome.src.instance)
       ELSE LET t == translate_errors(outcome.src.errors, 1, ser.fields,
                                      EmptyConfig, <<>>)
            IN /\ outcome.exc \in {"none", "serializers.ValidationError"}
               /\ ser.errors = error_detail(t.field_errors, t.non_field_errors)

\* C27: after an accepted dual validation with back-population on, no
\* value of the validated output is a source-model instance, neither
\* directly nor as an element of a list-valued field.
C27_NoInstanceInOutput ==
    (SourceAccepted /\ Truthy(ser.config, "backpopulate_after_validation"))
    => \A key \in DOMAIN ser.validated_data :
          LET value == ser.validated_data[key]
          IN /\ value.kind # "model"
             /\ value.kind = "list" =>
                   \A i \in DOMAIN value.items : value.items[i].kind # "model"

\* The number of messages in the buckets of an aggregate error.
RECURSIVE MessageCount(_, _)
MessageCount(detail, keys) ==
    IF keys = {} THEN 0
    ELSE LET key == CHOOSE k \in keys : TRUE
         IN Len(detail[key]) + MessageCount(detail, keys \ {key})

\* C29: when the derived schema has the authority, every error of the
\* source contributes one message to one bucket of the aggregate error, so
\* the messages of all buckets number the errors of the source, also when
\* a field is named like the global bucket.
C29_OneMessagePerSourceError ==
    (SourceRejected /\ Authority("drf"))
    => MessageCount(ser.errors, DOMAIN ser.errors) = Len(outcome.src.errors)

\* ============================================ the config of a model class
\* A class is a record [name, parent, dict, declared]: its index in the
\* class table, the index of its base (0: none), its own __dict__ (only the
\* attribute drf_config is modelled) and the drf_config its body declared.

\* Classes derived, one from the other, from drf_pydantic.BaseModel.
MaxChain == 3

\* inspect.getmro(cls) in a table of single-inheritance classes.
RECURSIVE getmro(_, _)
getmro(table, c) ==
    IF c = 0 THEN <<>> ELSE <<table[c]>> \o getmro(table, table[c].parent)

\* The first class of the MRO that has attr in its own __dict__; 0 stands
\* for the AttributeError raised when cls has no such attribute.
RECURSIVE first_owner(_, _, _)
first_owner(bases, i, attr) ==
    IF i > Len(bases) THEN 0
    ELSE IF attr \in DOMAIN bases[i].dict THEN bases[i].name
    ELSE first_owner(bases, i + 1, attr)
\* The same, searched from the far end of the MRO.
get_attr_owner_farthest(bases, attr) ==
    LET owners == {i \in DOMAIN bases : attr \in DOMAIN bases[i].dict}
    IN IF owners = {} THEN 0
       ELSE bases[CHOOSE i \in owners : \A j \in owners : j <= i].name
\* get_attr_owner(cls, attr), cls given by its MRO.
get_attr_owner(bases, attr) == first_owner(bases, 1, attr)

\* hasattr(cls, attr) and getattr(cls, attr): the attribute as the nearest
\* class of the MRO defines it.
hasattr(bases, attr) == \E i \in DOMAIN bases : attr \in DOMAIN bases[i].dict
getattr(table, bases, attr) == table[first_owner(bases, 1, attr)].dict[attr]

\* The config a new class gets: the keys its own body declares, over the
\* config its base carries, over the defaults.
resolve_config(table, cls) ==
    LET bases == <<cls>> \o getmro(table, cls.parent)
        inherited == getmro(table, cls.parent)
        own == IF hasattr(bases, "drf_config")
                  /\ get_attr_owner(bases, "drf_config") = cls.name
               THEN cls.dict["drf_config"] ELSE EmptyConfig
        base_config == IF hasattr(inherited, "drf_config")
                       THEN getattr(table, inherited, "drf_config")
                       ELSE EmptyConfig
    IN Update(Update(DefaultConfig, base_config), own)


\* drf_pydantic.BaseModel itself declares no drf_config.
ConfigInit ==
    classes = <<[name |-> 1, parent |-> 0, dict |-> EmptyConfig,
                 declared |-> EmptyConfig, declares |-> FALSE]>>

\* The drf_config dicts a class body declares.
DeclaredConfigs ==
    {EmptyConfig,
     [validate_pydantic |-> TRUE], [validate_pydantic |-> FALSE],
     [validation_error |-> "pydantic"], [validation_error |-> "drf"],
     [backpopulate_after_validation |-> FALSE],
     [validate_pydantic |-> TRUE, validation_error |-> "pydantic"],
     [validate_pydantic |-> TRUE, backpopulate_after_validation |-> FALSE]}

\* A class statement deriving a model from the newest class runs; its body
\* declares drf_config = declared, or no drf_config at all.  The class hook
\* stores the resolved config as the class's drf_config.
DefineClass(declares, declared) ==
    /\ Len(classes) <= MaxChain
    /\ declares \/ declared = EmptyConfig
    /\ LET body == [name |-> Len(classes) + 1, parent |-> Len(classes),
                    dict |-> IF declares THEN ("drf_config" :> declared)
                             ELSE EmptyConfig,
                    declared |-> declared, declares |-> declares]
           config == resolve_config(classes, body)
       IN classes' = Append(classes,
                        [body EXCEPT !.dict = ("drf_config" :> config)])
    /\ UNCHANGED <<registry_vars, validation_vars, convert_vars>>

ConfigNext ==
    \E declares \in BOOLEAN, declared \in DeclaredConfigs :
        DefineClass(declares, declared)

\* ---------------------------------------------------- properties: config

\* The value of key that the class numbered c ends with when the nearest
\* class that set it wins: the class's own declaration, else that of the
\* nearest ancestor that declared the key, else the default.
RECURSIVE NearestDeclared(_, _)
NearestDeclared(c, key) ==
    IF c = 0 THEN DefaultConfig[key]
    ELSE IF classes[c].declares /\ key \in DOMAIN classes[c].declared
    THEN classes[c].declared[key]
    ELSE NearestDeclared(classes[c].parent, key)

MaxNest == 2
\* Length of the metadata converted.
MaxItems == 2

\* typing.Union, Optional and X | Y over members that are no unions.
UnionsOver(S) ==
    {Optional(a) : a \in S} \cup {Union(NoneType, a) : a \in S}
    \cup {PipeUnion(a, NoneType) : a \in S}
    \cup {Union(Class("int"), Class("str")),
          Union3(Class("int"), Class("str"), NoneType),
          PipeUnion(Class("int"), Class("str"))}

\* Annotations nested at most n deep: classes, lists and dicts of
\* annotations, and unions of them.
RECURSIVE Annotations(_)
Annotations(n) ==
    IF n = 0 THEN {Class("int"), Class("str"), Class("bytes")}
    ELSE LET inner == Annotations(n - 1)
             plain == {a \in inner : a.k \notin {"union", "uniontype"}}
         IN inner \cup UnionsOver(plain)
            \cup {Generic("list", <<a>>) : a \in inner}
            \cup {Generic("dict", <<Class("str"), a>>) : a \in inner}

\* The metadata items pydantic lets a field of each type carry.
BoundItems(values) ==
    UNION {{Ge(v), Gt(v), Le(v), Lt(v)} : v \in values}
PrecisionItems ==
    {PydanticMetadata(max_digits, decimal_places) :
        max_digits \in {None, Some(0), Some(5)},
        decimal_places \in {None, Some(0), Some(2)}}
ManualItems ==
    {DrfField(Field("IntegerField", ("allow_null" :> FALSE) @@ ("required" :> FALSE))),
     DrfField(Field("CharField", ("allow_null" :> TRUE) @@ ("required" :> FALSE)
                                 @@ ("default" :> "unknown")))}
LengthItems ==
    {StringConstraints(min_length, max_length) :
        min_length \in {None, Some(0), Some(3)},
        max_length \in {None, Some(10)}}
    \cup {MinLen(1), MinLen(5), MaxLen(5), MaxLen(20)}
PatternItems ==
    {StringPattern(pattern) : pattern \in Patterns}
    \cup {FieldPattern("123")}
ItemsFor(t) ==
    CASE t = "int" -> BoundItems({Num(0), Num(69)}) \cup ManualItems
      [] t = "Decimal" -> BoundItems({Num(69)}) \cup PrecisionItems
                          \cup ManualItems
      [] t = "date" -> BoundItems({ADate}) \cup ManualItems
      [] t = "str" -> LengthItems \cup PatternItems \cup ManualItems

\* Positions of the tuple annotations converted.
MaxTuple == 3

\* tuple[...] over scalar classes, a list, an X | None union and the
\* Ellipsis; tuple[()] is the one without arguments.
TupleAnnotations ==
    {Generic("tuple", args) :
        args \in SeqsUpTo({Class("int"), Class("str"), Ellipsis,
                           Generic("list", <<Class("int")>>),
                           PipeUnion(Class("int"), NoneType)}, MaxTuple)}

\* Fields that carry a manual serializer field whatever their annotation,
\* is_required() and other items are.
OverriddenFields ==
    {[AnnotatedField("f", a, <<manual>>) EXCEPT !.required = required] :
        a \in {Optional(Class("int")), Generic("list", <<Class("str")>>),
               Union(Class("int"), Class("str"))},
        manual \in ManualItems, required \in BOOLEAN}

\* The fields converted: every annotation without metadata, and the
\* tuple annotations, the numeric, decimal, date and text fields with every
\* metadata up to MaxItems, and the fields with a manual serializer field.
ConvFields ==
    {AnnotatedField("f", a, <<>>) :
        a \in Annotations(MaxNest) \cup TupleAnnotations}
    \cup UNION {{AnnotatedField("f", Class(t), metadata) :
                    metadata \in SeqsUpTo(ItemsFor(t), MaxItems)} :
                t \in {"int", "Decimal", "date", "str"}}
    \cup OverriddenFields

NoConv == [op |-> "none", field |-> NoField, exc |-> "none", msg |-> "",
           type_ |-> NoType, val |-> NoValue, warnings |-> <<>>]
NoChecked == [op |-> "none", via |-> "", data |-> [kind |-> "", v |-> ""],
              exc |-> "none", msg |-> "", val |-> [kind |-> "", v |-> ""]]


\* EnumField (fields.py): the field class for an enum annotation.
\* A datum is a member object of the enum, or a string.
Member(name) == [kind |-> "member", v |-> name]
Str(v) == [kind |-> "str", v |-> v]
NoDatum == [kind |-> "", v |-> ""]

\* The inputs an enum field is given.
EnumData ==
    {Member(EnumMembers("SexEnum")[i].name) : i \in DOMAIN EnumMembers("SexEnum")}
    \cup {Str(v) : v \in {"male", "MALE", "other", "OTHER", "bad_value", ""}}

\* What a validation by a field ended in.
Validated(val) == [exc |-> "none", msg |-> "", val |-> val]
Fail(msg) == [exc |-> "serializers.ValidationError", msg |-> msg,
              val |-> NoDatum]

\* EnumField.to_internal_value(data): the first member that is the datum,
\* or whose name or value the datum is.
RECURSIVE enum_to_internal_value(_, _, _)
enum_to_internal_value(enum, i, data) ==
    IF i > Len(enum) THEN Fail("No matching enum type")
    ELSE IF data = Member(enum[i].name)
            \/ data = Str(enum[i].name) \/ data = Str(enum[i].value)
    THEN Validated(Member(enum[i].name))
    ELSE enum_to_internal_value(enum, i + 1, data)

\* EnumField.run_validation(data): a truthy datum that is no member must be
\* the value of a member; then the inherited run_validation calls
\* to_internal_value.
enum_run_validation(enum, data) ==
    IF data # Str("") /\ data.kind # "member"
       /\ ~\E i \in DOMAIN enum : data = Str(enum[i].value)
    THEN Fail("No matching enum type")
    ELSE enum_to_internal_value(enum, 1, data)

\* The validation by the serializers.ChoiceField that _convert_type builds
\* for an enum annotation, choices being its (value, value) pairs: the
\* choice whose string is str(data), which is returned as the value it is
\* (a string), never as a member of the enum.
str(data) == IF data.kind = "member" THEN "SexEnum." \o data.v ELSE data.v
choice_to_internal_value(choices, data) ==
    IF \E i \in DOMAIN choices : choices[i][1] = str(data)
    THEN Validated(Str(str(data)))
    ELSE Fail("is not a valid choice.")

ConvertInit ==
    /\ conv = NoConv
    /\ checked = NoChecked

\* A field waits to be converted, or a datum to be validated.
ConvertStart ==
    \/ /\ conv \in {[NoConv EXCEPT !.op = "pending", !.field = field] :
                      field \in ConvFields}
       /\ checked = NoChecked
    \/ /\ conv = NoConv
       /\ checked \in {[NoChecked EXCEPT !.op = "pending", !.via = via,
                                         !.data = data] :
                         via \in {"EnumField", "ChoiceField"},
                         data \in EnumData}

\* _convert_field(field, drf_config) is run on the field that waits.
ConvertField ==
    /\ conv.op = "pending"
    /\ \E r \in {_convert_field(conv.field, DefaultConfig, Store, 0)} :
          conv' = [op |-> "convert", field |-> conv.field, exc |-> r.exc,
                   msg |-> r.info.msg, type_ |-> r.info.type_,
                   val |-> r.val,
                   warnings |-> r.st.warnings]
    /\ UNCHANGED <<checked, registry_vars, validation_vars, config_vars>>

\* field.run_validation(data) is run on the datum that waits, field being
\* an EnumField for SexEnum or the field _convert_type builds for SexEnum.
ValidateEnum ==
    /\ checked.op = "pending"
    /\ \E r \in {IF checked.via = "EnumField"
                 THEN enum_run_validation(EnumMembers("SexEnum"), checked.data)
                 ELSE choice_to_internal_value(
                          _convert_type(Class("SexEnum"), DefaultConfig, NoField,
                                        EmptyConfig, Store, 0).val.kwargs["choices"],
                          checked.data)} :
          checked' = [op |-> "validate", via |-> checked.via,
                      data |-> checked.data, exc |-> r.exc, msg |-> r.msg,
                      val |-> r.val]
    /\ UNCHANGED <<conv, registry_vars, validation_vars, config_vars>>

ConvertNext ==
    \/ ConvertField
    \/ ValidateEnum

\* ------------------------------------------- claims: the field conversion

Converted == conv.op = "convert"

\* A union of either spelling; one of exactly two members, None among them;
\* the member of it that is not None.
IsUnion(a) == a.k \in {"union", "uniontype"}
OptionalUnion(a) ==
    IsUnion(a) /\ Len(a.args) = 2 /\ NoneType \in Range(a.args)
NonNone(a) == CHOOSE member \in Range(a.args) : member # NoneType

\* What converting annotation a alone, as a field without metadata, ends in.
ConvertedAlone(a) ==
    _convert_field(AnnotatedField("f", a, <<>>), DefaultConfig, Store, 0)

\* The first union the conversion of a refuses on its way down through
\* optional unions, list elements and dict values (NoType: none).
RECURSIVE RefusedUnion(_)
RefusedUnion(a) ==
    IF IsUnion(a)
    THEN IF OptionalUnion(a) THEN RefusedUnion(NonNone(a)) ELSE a
    ELSE IF a.k = "generic" /\ a.t = "list" THEN RefusedUnion(a.args[1])
    ELSE IF a.k = "generic" /\ a.t = "dict" /\ a.args[1] = Class("str")
    THEN RefusedUnion(a.args[2])
    ELSE NoType

\* C15 as stated: a union annotation converts if and only if it has exactly
\* two members one of which is None.
C15_UnionConvertsIffOptional ==
    (Converted /\ conv.field.metadata = <<>> /\ IsUnion(conv.field.annotation))
        => (conv.exc = "none" <=> OptionalUnion(conv.field.annotation))

\* C15: a union of exactly two members one of which is None converts as
\* its other member converts alone, failing as that member fails and else
\* producing the same field class with allow_null true; an annotation that
\* is no union gives allow_null false; every other union, met at the top, as
\* a list element or as a dict value, raises the FieldConversionError that
\* names it.
C15_UnionRule ==
    (Converted /\ conv.field.metadata = <<>>) =>
        LET a == conv.field.annotation
        IN /\ OptionalUnion(a) =>
                LET alone == ConvertedAlone(NonNone(a))
                IN /\ conv.exc = alone.exc
                   /\ conv.msg = alone.info.msg
                   /\ conv.type_ = alone.info.type_
                   /\ conv.exc = "none" =>
                         /\ conv.val.allow_null
                         /\ conv.val.kwargs["allow_null"]
                         /\ conv.val.field = alone.val.field
                         /\ conv.val.child = alone.val.child
           /\ (~IsUnion(a) /\ conv.exc = "none") =>
                 ~conv.val.allow_null /\ ~conv.val.kwargs["allow_null"]
           /\ RefusedUnion(a) # NoType =>
                 /\ conv.exc = "FieldConversionError"
                 /\ conv.msg = "Field has Union type which cannot be converted"
                 /\ conv.type_ = RefusedUnion(a)
           /\ (conv.exc = "none" /\ IsUnion(a)) => OptionalUnion(a)

\* A list of int | None was converted: the list field does not allow null,
\* its child is the integer field and allows null.
C15_Witness ==
    /\ Converted
    /\ conv.field.annotation = Generic("list", <<PipeUnion(Class("int"), NoneType)>>)
    /\ conv.exc = "none"
    /\ conv.val.field = "ListField" /\ ~conv.val.allow_null
    /\ conv.val.child[1].field = "IntegerField"
    /\ conv.val.child[1].allow_null

\* The members of SexEnum the datum is, names or is the value of.
MatchedMembers(data) ==
    {Member(EnumMembers("SexEnum")[i].name) : i \in
        {j \in DOMAIN EnumMembers("SexEnum") :
            \/ data = Member(EnumMembers("SexEnum")[j].name)
            \/ data = Str(EnumMembers("SexEnum")[j].name)
            \/ data = Str(EnumMembers("SexEnum")[j].value)}}

\* C16: the field of an enum annotation validates a member object, the name
\* of a member and the value of a member to that member, and fails on any
\* other input with 'No matching enum type'.
C16_EnumInputNormalised ==
    checked.op = "validate" =>
        IF MatchedMembers(checked.data) # {}
        THEN checked.exc = "none" /\ MatchedMembers(checked.data) = {checked.val}
        ELSE /\ checked.exc = "serializers.ValidationError"
             /\ checked.msg = "No matching enum type"

\* Lower-bound and upper-bound items; items whose value converts to a
\* decimal number; metadata holding no manual serializer field.
Lower(item) == item.kind \in {"Ge", "Gt"}
Upper(item) == item.kind \in {"Le", "Lt"}
Numeric(item) == (Lower(item) \/ Upper(item)) /\ item.bound.numeric
NoManual(metadata) ==
    \A i \in DOMAIN metadata : metadata[i].kind # "DrfField"

\* Item j is a bound of one side that follows a numeric bound of that side.
LowerConflict(metadata, j) ==
    Lower(metadata[j])
    /\ \E i \in 1..(j - 1) : Lower(metadata[i]) /\ Numeric(metadata[i])
UpperConflict(metadata, j) ==
    Upper(metadata[j])
    /\ \E i \in 1..(j - 1) : Upper(metadata[i]) /\ Numeric(metadata[i])

\* Item j supplies max_digits, or decimal_places, that an earlier item
\* supplied.
PrecisionConflict(metadata, j) ==
    /\ metadata[j].kind = "PydanticMetadata"
    /\ \E i \in 1..(j - 1) :
          /\ metadata[i].kind = "PydanticMetadata"
          /\ \/ metadata[i].max_digits # None /\ metadata[j].max_digits # None
             \/ /\ metadata[i].decimal_places # None
                /\ metadata[j].decimal_places # None

Conflict(metadata, j) ==
    \/ LowerConflict(metadata, j)
    \/ UpperConflict(metadata, j)
    \/ PrecisionConflict(metadata, j)

\* Item j is the first item of the metadata that conflicts with an earlier
\* one.
FirstConflict(metadata, j) ==
    Conflict(metadata, j) /\ \A i \in 1..(j - 1) : ~Conflict(metadata, i)

MinValueMessage == "Field has multiple conflicting min_value constraints"
MaxValueMessage == "Field has multiple conflicting max_value constraints"

RECURSIVE ExclusivityWarnings(_)
ExclusivityWarnings(metadata) ==
    IF metadata = <<>> THEN <<>>
    ELSE (CASE Head(metadata).kind = "Gt" ->
                 <<"gt (>) is not supported by DRF, using ge (>=) instead">>
            [] Head(metadata).kind = "Lt" ->
                 <<"lt (<) is not supported by DRF, using le (<=) instead">>
            [] OTHER -> <<>>)
         \o ExclusivityWarnings(Tail(metadata))

SuppliedMaxDigits(metadata) ==
    {metadata[i].max_digits : i \in {j \in DOMAIN metadata :
        metadata[j].kind = "PydanticMetadata" /\ metadata[j].max_digits # None}}
SuppliedDecimalPlaces(metadata) ==
    {metadata[i].decimal_places : i \in {j \in DOMAIN metadata :
        metadata[j].kind = "PydanticMetadata"
        /\ metadata[j].decimal_places # None}}

\* C19: the field produced for a Decimal field has the max_digits its
\* metadata supplies, whatever non-negative integer it is, and the precision
\* of the decimal context when the metadata supplies none; and so for
\* decimal_places.
C19_PrecisionCopiedThrough ==
    (/\ Converted /\ conv.exc = "none"
     /\ conv.field.annotation = Class("Decimal")
     /\ NoManual(conv.field.metadata))
    => LET metadata == conv.field.metadata
       IN /\ conv.val.field = "DecimalField"
          /\ IF SuppliedMaxDigits(metadata) = {}
             THEN conv.val.kwargs["max_digits"] = Some(_context_prec)
             ELSE SuppliedMaxDigits(metadata) = {conv.val.kwargs["max_digits"]}
          /\ IF SuppliedDecimalPlaces(metadata) = {}
             THEN conv.val.kwargs["decimal_places"] = Some(_context_prec)
             ELSE SuppliedDecimalPlaces(metadata)
                    = {conv.val.kwargs["decimal_places"]}

\* The items of a metadata that supply max_digits, decimal_places, either.
MaxDigitsItems(metadata) ==
    {i \in DOMAIN metadata : metadata[i].kind = "PydanticMetadata"
                             /\ metadata[i].max_digits # None}
DecimalPlacesItems(metadata) ==
    {i \in DOMAIN metadata : metadata[i].kind = "PydanticMetadata"
                             /\ metadata[i].decimal_places # None}

PrecisionMessage ==
    "Field has multiple max_digits or decimal_places conflicting constraints."

\* C20 as stated: a field whose decimal precision, max_digits and/or
\* decimal_places, is supplied by more than one item of its metadata fails
\* to convert with the precision message.
C20_PrecisionFromTwoItemsFails ==
    (/\ Converted /\ NoManual(conv.field.metadata)
     /\ Cardinality(MaxDigitsItems(conv.field.metadata)
                    \cup DecimalPlacesItems(conv.field.metadata)) > 1)
    => conv.exc = "FieldConversionError" /\ conv.msg = PrecisionMessage

\* C20: a field without a manual serializer field fails to convert, with
\* the precision message, when the first conflict of its metadata is an
\* item that supplies max_digits after an earlier item supplied max_digits,
\* or decimal_places after an earlier item supplied decimal_places; so the
\* field any metadata yields took each of the two from at most one item.
C20_SamePrecisionTwiceFails ==
    (Converted /\ NoManual(conv.field.metadata)) =>
        LET metadata == conv.field.metadata
        IN /\ \A j \in DOMAIN metadata :
                 (FirstConflict(metadata, j) /\ PrecisionConflict(metadata, j))
                    => /\ conv.exc = "FieldConversionError"
                       /\ conv.msg = PrecisionMessage
           /\ conv.exc = "none" =>
                 /\ Cardinality(MaxDigitsItems(metadata)) <= 1
                 /\ Cardinality(DecimalPlacesItems(metadata)) <= 1

\* max_digits=5, decimal_places=2 followed by max_digits=5 on a Decimal
\* field was refused.
C20_Witness ==
    /\ Converted
    /\ conv.field.annotation = Class("Decimal")
    /\ conv.field.metadata = <<PydanticMetadata(Some(5), Some(2)),
                               PydanticMetadata(Some(5), None)>>
    /\ conv.exc = "FieldConversionError"
    /\ conv.msg = PrecisionMessage

\* Metadata made of length-bound items only; the minimums and the maximums
\* its items supply.
LengthOnly(metadata) ==
    \A i \in DOMAIN metadata :
        /\ metadata[i].kind \in {"StringConstraints", "MinLen", "MaxLen"}
        /\ metadata[i].pattern = None
SuppliedMinimums(metadata) ==
    {metadata[i].min_length[1] : i \in {j \in DOMAIN metadata :
        metadata[j].kind \in {"StringConstraints", "MinLen"}
        /\ metadata[j].min_length # None}}
SuppliedMaximums(metadata) ==
    {metadata[i].max_length[1] : i \in {j \in DOMAIN metadata :
        metadata[j].kind \in {"StringConstraints", "MaxLen"}
        /\ metadata[j].max_length # None}}
Largest(S) == CHOOSE n \in S : \A other \in S : other <= n
Smallest(S) == CHOOSE n \in S : \A other \in S : n <= other

\* C21: a str field whose metadata is any sequence of length-bound items
\* converts, and the field produced has the largest supplied minimum as
\* min_length and the smallest supplied maximum as max_length (none where
\* none is supplied).
C21_LengthBoundsNarrow ==
    (/\ Converted
     /\ conv.field.annotation = Class("str")
     /\ LengthOnly(conv.field.metadata))
    => LET metadata == conv.field.metadata
       IN /\ conv.exc = "none"
          /\ Get(conv.val.kwargs, "min_length") =
                IF SuppliedMinimums(metadata) = {} THEN None
                ELSE Some(Largest(SuppliedMinimums(metadata)))
          /\ Get(conv.val.kwargs, "max_length") =
                IF SuppliedMaximums(metadata) = {} THEN None
                ELSE Some(Smallest(SuppliedMaximums(metadata)))

\* The items of a metadata that carry a regex pattern.
PatternCarriers(metadata) ==
    {i \in DOMAIN metadata : metadata[i].pattern # None}

\* C22: a str field without a manual serializer field whose metadata
\* carries exactly one regex pattern converts to a RegexField for that
\* pattern, with allow_blank true exactly when the pattern matches the
\* empty string; one whose metadata carries two or more patterns fails with
\* 'Field has multiple regex patterns'.
C22_OnePatternGivesRegexField ==
    (/\ Converted
     /\ conv.field.annotation = Class("str")
     /\ NoManual(conv.field.metadata))
    => LET metadata == conv.field.metadata
       IN /\ Cardinality(PatternCarriers(metadata)) = 1 =>
                /\ conv.exc = "none"
                /\ conv.val.field = "RegexField"
                /\ \A i \in PatternCarriers(metadata) :
                      /\ conv.val.kwargs["regex"] = metadata[i].pattern[1]
                      /\ conv.val.kwargs["allow_blank"]
                            = search_empty(metadata[i].pattern[1])
          /\ Cardinality(PatternCarriers(metadata)) > 1 =>
                /\ conv.exc = "FieldConversionError"
                /\ conv.msg = "Field has multiple regex patterns"

\* The items of a metadata that are serializer field instances.
ManualCarriers(metadata) ==
    {i \in DOMAIN metadata : metadata[i].kind = "DrfField"}

\* C23: a field whose metadata holds exactly one serializer field instance
\* converts to that instance as constructed, whatever its annotation, its
\* required flag and its other items; one whose metadata holds more than
\* one fails with 'Field has multiple conflicting DRF serializer fields'.
C23_ManualFieldVerbatim ==
    Converted
    => LET metadata == conv.field.metadata
       IN /\ Cardinality(ManualCarriers(metadata)) = 1 =>
                /\ conv.exc = "none"
                /\ \A i \in ManualCarriers(metadata) :
                      conv.val = metadata[i].field[1]
          /\ Cardinality(ManualCarriers(metadata)) > 1 =>
                /\ conv.exc = "FieldConversionError"
                /\ conv.msg = "Field has multiple conflicting DRF serializer fields"

\* A required field annotated with a union that does not convert came out
\* as its manual serializer field, which is not required.
C23_Witness ==
    /\ Converted
    /\ conv.field.annotation = Union(Class("int"), Class("str"))
    /\ conv.field.required
    /\ Cardinality(ManualCarriers(conv.field.metadata)) = 1
    /\ conv.exc = "none"
    /\ conv.val.field = "CharField"
    /\ ~conv.val.kwargs["required"]

\* The tuple shapes that convert: one scalar type followed by Ellipsis, or
\* two or more positions all of one scalar type.
SupportedTuple(type_args) ==
    \/ /\ Len(type_args) = 2
       /\ type_args[1] # Ellipsis /\ is_scalar(type_args[1])
       /\ type_args[2] = Ellipsis
    \/ /\ Len(type_args) >= 2
       /\ \A i \in DOMAIN type_args :
             /\ type_args[i] # Ellipsis /\ is_scalar(type_args[i])
             /\ type_args[i] = type_args[1]

\* C24: a tuple annotation converts, to a ListField, exactly when it is one
\* scalar type followed by Ellipsis or two or more positions of one scalar
\* type; every other tuple (heterogeneous, with non-scalar elements, of a
\* single position, empty) fails with FieldConversionError.
C24_TupleConvertsIffHomogeneous ==
    (/\ Converted
     /\ conv.field.annotation.k = "generic"
     /\ conv.field.annotation.t = "tuple"
     /\ conv.field.metadata = <<>>)
    => IF SupportedTuple(conv.field.annotation.args)
       THEN conv.exc = "none" /\ conv.val.field = "ListField"
       ELSE conv.exc = "FieldConversionError"

\* C30: a str field without a regex pattern that converts permits blank
\* input exactly when no minimum length of 1 or more applies to it; with no
\* length item, or with maximum lengths only, it permits blank input.
C30_BlankIffNoMinimum ==
    (/\ Converted /\ conv.exc = "none"
     /\ conv.field.annotation = Class("str")
     /\ LengthOnly(conv.field.metadata))
    => conv.val.kwargs["allow_blank"]
          = (\A n \in SuppliedMinimums(conv.field.metadata) : n < 1)

\* ==================================================== the specifications

Init == RegistryInit /\ ValidationInit /\ ConfigInit /\ ConvertInit

\* The registry and the conversion of models.
SpecRegistry == Init /\ [][RegistryNext]_vars

\* One serializer instance and the operations on it.
SpecValidation == Init /\ [][ValidationNext]_vars

\* The class statements of a chain of models.
SpecConfig == Init /\ [][ConfigNext]_vars

\* The conversion of single fields and the validation by an enum field.
InitConvert == RegistryInit /\ ValidationInit /\ ConfigInit /\ ConvertStart
SpecConvert == InitConvert /\ [][ConvertNext]_vars

Next == RegistryNext \/ ValidationNext \/ ConfigNext \/ ConvertNext

====
